---- MODULE Spec2Model ----
(***************************************************************************)
(* mario: MARC ingest.  A rule-driven mapping of decoded MARC records to   *)
(* normalized Records (marc.go), streamed by a producer goroutine over an  *)
(* unbuffered channel to a consumer.                                       *)
(*                                                                         *)
(* A Go string is a sequence of bytes, and so is a string here: one        *)
(* character for each byte, the byte b being the character of code point   *)
(* b.  A character beyond ASCII is therefore written by the bytes of its   *)
(* UTF-8 encoding (U+00E9, the bytes C3 A9, is the two characters U+00C3   *)
(* U+00A9), Len counts bytes and SubSeq cuts between bytes.                *)
(* A nil slice is the empty sequence <<>>; a pointer is a sequence of      *)
(* length 0 (nil) or 1; a map[string]string is a function whose DOMAIN is  *)
(* the set of keys.                                                        *)
(* A panic inside a pure function is an outcome of it: every operator that *)
(* can panic returns [panic |-> kind, val |-> value], kind "none" meaning  *)
(* that the function returned val.                                         *)
(***************************************************************************)
EXTENDS Integers, Sequences, FiniteSets, TLC

(***************************************************************************)
(* Strings (package strings, strconv; Go slice expressions)                *)
(***************************************************************************)

\* strings.Join(elems, sep)
RECURSIVE Join(_, _)
Join(elems, sep) ==
    IF elems = <<>> THEN ""
    ELSE IF Len(elems) = 1 THEN elems[1]
    ELSE elems[1] \o sep \o Join(Tail(elems), sep)

\* strings.Split(s, sep) for a one-byte separator: always at least one piece
RECURSIVE SplitFrom(_, _, _)
SplitFrom(s, sep, cur) ==
    IF s = "" THEN <<cur>>
    ELSE IF Head(s) = sep THEN <<cur>> \o SplitFrom(Tail(s), sep, "")
    ELSE SplitFrom(Tail(s), sep, cur \o Head(s))

Split(s, sep) == SplitFrom(s, sep, "")

Digits == {"0", "1", "2", "3", "4", "5", "6", "7", "8", "9"}

DigitVal(c) ==
    CASE c = "0" -> 0 [] c = "1" -> 1 [] c = "2" -> 2 [] c = "3" -> 3
      [] c = "4" -> 4 [] c = "5" -> 5 [] c = "6" -> 6 [] c = "7" -> 7
      [] c = "8" -> 8 [] c = "9" -> 9

DigitStr(n) == SubSeq("0123456789", n + 1, n + 1)

RECURSIVE DecStr(_)
DecStr(n) == IF n < 10 THEN DigitStr(n) ELSE DecStr(n \div 10) \o DigitStr(n % 10)

(***************************************************************************)
(* int.  The program is built with an int of 64 bits, more than an integer *)
(* of the model checker holds, so an int is written as the record          *)
(* [neg, mag]: its sign and the decimal digits of its magnitude, without   *)
(* leading zeros ("0" for zero, which has neg = FALSE).                    *)
(***************************************************************************)

GoInt(neg, mag) == [neg |-> neg /\ mag # "0", mag |-> mag]

\* 1<<64 - 1, 1<<63 - 1, 1<<63 and 1<<64
MaxUint64 == "18446744073709551615"

MaxInt64 == "9223372036854775807"

MinInt64Mag == "9223372036854775808"

TwoTo64 == "18446744073709551616"

RECURSIVE StripZeros(_)
StripZeros(d) == IF Len(d) > 1 /\ Head(d) = "0" THEN StripZeros(Tail(d)) ELSE d

RECURSIVE LexLess(_, _)
LexLess(a, b) ==
    IF a = "" THEN FALSE
    ELSE IF Head(a) = Head(b) THEN LexLess(Tail(a), Tail(b))
    ELSE DigitVal(Head(a)) < DigitVal(Head(b))

\* a < b, of magnitudes
MagLess(a, b) == Len(a) < Len(b) \/ (Len(a) = Len(b) /\ LexLess(a, b))

LastDigit(d) == IF d = "" THEN 0 ELSE DigitVal(SubSeq(d, Len(d), Len(d)))

AllButLast(d) == IF d = "" THEN "" ELSE SubSeq(d, 1, Len(d) - 1)

RECURSIVE AddDigits(_, _, _)
AddDigits(a, b, carry) ==
    IF a = "" /\ b = "" THEN (IF carry = 0 THEN "" ELSE DigitStr(carry))
    ELSE AddDigits(AllButLast(a), AllButLast(b),
                   (LastDigit(a) + LastDigit(b) + carry) \div 10)
         \o DigitStr((LastDigit(a) + LastDigit(b) + carry) % 10)

\* a + b, of magnitudes
AddMag(a, b) == StripZeros(AddDigits(a, b, 0))

RECURSIVE SubDigits(_, _, _)
SubDigits(a, b, borrow) ==
    IF a = "" THEN ""
    ELSE SubDigits(AllButLast(a), AllButLast(b),
                   IF LastDigit(a) - LastDigit(b) - borrow < 0 THEN 1 ELSE 0)
         \o DigitStr((LastDigit(a) - LastDigit(b) - borrow + 10) % 10)

\* a - b, of magnitudes with b <= a
SubMag(a, b) == StripZeros(SubDigits(a, b, 0))

\* x + y, of the numbers
Sum(x, y) ==
    IF x.neg = y.neg THEN GoInt(x.neg, AddMag(x.mag, y.mag))
    ELSE IF MagLess(x.mag, y.mag) THEN GoInt(y.neg, SubMag(y.mag, x.mag))
    ELSE GoInt(x.neg, SubMag(x.mag, y.mag))

\* x <= y
IntLe(x, y) ==
    IF x.neg /\ ~y.neg THEN TRUE
    ELSE IF ~x.neg /\ y.neg THEN FALSE
    ELSE IF x.neg THEN ~MagLess(x.mag, y.mag)
    ELSE ~MagLess(y.mag, x.mag)

\* x + y on int: the sum wraps around at 64 bits
AddInt(x, y) ==
    IF IntLe(Sum(x, y), GoInt(FALSE, MaxInt64)) /\ IntLe(GoInt(TRUE, MinInt64Mag), Sum(x, y))
    THEN Sum(x, y)
    ELSE Sum(Sum(x, y), GoInt(~Sum(x, y).neg, TwoTo64))

\* The int of a length or an index of the model
FromNat(n) == GoInt(FALSE, DecStr(n))

\* strconv.ParseUint(s, 10, 64), the loop over the bytes of s: a byte that
\* is no digit is a syntax error; a digit with which the value passes
\* 1<<64 - 1 is a range error, returned with that value at once, whatever
\* follows the digit.
RECURSIVE ParseDigits(_, _)
ParseDigits(s, n) ==
    IF s = "" THEN [err |-> "none", un |-> n]
    ELSE IF Head(s) \notin Digits THEN [err |-> "syntax", un |-> "0"]
    ELSE IF MagLess(MaxUint64, StripZeros(n \o Head(s)))
         THEN [err |-> "range", un |-> MaxUint64]
    ELSE ParseDigits(Tail(s), StripZeros(n \o Head(s)))

ParseUint(s) == IF s = "" THEN [err |-> "syntax", un |-> "0"] ELSE ParseDigits(s, "0")

\* strconv.ParseInt(s, 10, 0), the value it returns beside its error: 0 on
\* a syntax error, the largest or the smallest int for a magnitude beyond
\* them
ParseIntOf(neg, u) ==
    IF u.err = "syntax" THEN GoInt(FALSE, "0")
    ELSE IF ~neg /\ ~MagLess(u.un, MinInt64Mag) THEN GoInt(FALSE, MaxInt64)
    ELSE IF neg /\ MagLess(MinInt64Mag, u.un) THEN GoInt(TRUE, MinInt64Mag)
    ELSE GoInt(neg, u.un)

ParseInt(s) ==
    IF s = "" THEN GoInt(FALSE, "0")
    ELSE IF Head(s) \in {"+", "-"} THEN ParseIntOf(Head(s) = "-", ParseUint(Tail(s)))
    ELSE ParseIntOf(FALSE, ParseUint(s))

\* strconv.Atoi(s) with the error dropped, as filter drops it.  Its loop
\* for a short s gives what ParseInt gives.
Atoi(s) == ParseInt(s)

\* The Go slice expression v[lo:hi] on a string: it panics unless
\* 0 <= lo <= hi <= len(v), len(v) the number of bytes of v, and cuts v
\* between bytes, within a character of several bytes as well.
SliceOk(v, lo, hi) ==
    IntLe(FromNat(0), lo) /\ IntLe(lo, hi) /\ IntLe(hi, FromNat(Len(v)))

\* The byte offset in v that the int x names, for 0 <= x <= len(v)
Offset(v, x) == CHOOSE n \in 0..Len(v) : FromNat(n) = x

Slice(v, lo, hi) == SubSeq(v, Offset(v, lo) + 1, Offset(v, hi))

RECURSIVE TrimLeft(_, _)
TrimLeft(s, cutset) ==
    IF s # "" /\ Head(s) \in cutset THEN TrimLeft(Tail(s), cutset) ELSE s

RECURSIVE TrimRight(_, _)
TrimRight(s, cutset) ==
    IF s # "" /\ SubSeq(s, Len(s), Len(s)) \in cutset
    THEN TrimRight(SubSeq(s, 1, Len(s) - 1), cutset) ELSE s

\* strings.Trim(s, cutset) for a cutset of ASCII characters, given as the
\* set of its bytes
Trim(s, cutset) == TrimRight(TrimLeft(s, cutset), cutset)

\* The white space of unicode.IsSpace, each character as the bytes of its
\* UTF-8 encoding: space, tab, newline, carriage return, form feed, vertical
\* tab, U+0085 (C2 85), U+00A0 (C2 A0), U+1680 (E1 9A 80), U+2000 to U+200A
\* (E2 80 80 to E2 80 8A), U+2028, U+2029, U+202F (E2 80 A8, A9, AF),
\* U+205F (E2 81 9F) and U+3000 (E3 80 80)
WhiteSpace ==
    {" ", "\t", "\n", "\r", "\f", "", "Â", "Â ", "á", "â", "â",
     "â", "â", "â", "â", "â", "â", "â", "â", "â", "â¨",
     "â©", "â¯", "â", "ã"}

HasPrefix(s, prefix) == Len(prefix) <= Len(s) /\ SubSeq(s, 1, Len(prefix)) = prefix

HasSuffix(s, suffix) ==
    Len(suffix) <= Len(s) /\ SubSeq(s, Len(s) - Len(suffix) + 1, Len(s)) = suffix

\* strings.TrimSpace(s): the characters it decodes at the start of s for
\* as long as they are white space, then those at its end.  A byte that
\* begins no white space character, or is not valid UTF-8, stops it.
RECURSIVE TrimLeftSpace(_)
TrimLeftSpace(s) ==
    IF \E w \in WhiteSpace : HasPrefix(s, w)
    THEN TrimLeftSpace(SubSeq(s, Len(CHOOSE w \in WhiteSpace : HasPrefix(s, w)) + 1,
                              Len(s)))
    ELSE s

RECURSIVE TrimRightSpace(_)
TrimRightSpace(s) ==
    IF \E w \in WhiteSpace : HasSuffix(s, w)
    THEN TrimRightSpace(SubSeq(s, 1,
                               Len(s) - Len(CHOOSE w \in WhiteSpace : HasSuffix(s, w))))
    ELSE s

TrimSpace(s) == TrimRightSpace(TrimLeftSpace(s))

(***************************************************************************)
(* The decoded record (fml.Record) and the rules (Rule, Field)             *)
(*                                                                         *)
(* fmlRecord: [ControlNum, LeaderType, Fields], Fields a sequence of       *)
(*   [Tag, Control, Value, Indicator1, Indicator2, SubFields], SubFields a *)
(*   sequence of [Code, Value]; a control field has Control = TRUE and its *)
(*   data in Value.                                                        *)
(* Rule: [Label, Array, Fields], Fields a sequence of *Field,              *)
(*   Field: [Tag, Subfields, Bytes, Kind].                                 *)
(* The rules are a sequence of *Rule.  A *Rule and a *Field are a sequence *)
(* of length 0 (nil) or 1.                                                 *)
(***************************************************************************)

Ok(v) == [panic |-> "none", val |-> v]

Panic(kind) == [panic |-> kind, val |-> <<>>]

RECURSIVE Chars(_)
Chars(s) == IF s = "" THEN {} ELSE {Head(s)} \cup Chars(Tail(s))

RECURSIVE SubfieldValues(_, _)
SubfieldValues(subs, codes) ==
    IF subs = <<>> THEN <<>>
    ELSE (IF subs[1].Code \in codes THEN <<subs[1].Value>> ELSE <<>>)
         \o SubfieldValues(Tail(subs), codes)

\* The tag a query names: its first three bytes (a MARC tag has three), and
\* all of a query that has fewer
QueryTag(query) == SubSeq(query, 1, IF Len(query) < 3 THEN Len(query) ELSE 3)

\* The subfield codes a query asks for: what follows the tag
QueryCodes(query) == SubSeq(query, Len(QueryTag(query)) + 1, Len(query))

\* fmlRecord.Filter(query): one list of values per occurrence of the tag
\* the query names, in record order; the values of the requested subfields
\* in the order they occur, or the data of a control field.
RECURSIVE FilterFields(_, _, _)
FilterFields(fields, tag, subfields) ==
    IF fields = <<>> THEN <<>>
    ELSE (IF fields[1].Tag # tag THEN <<>>
          ELSE IF fields[1].Control THEN << <<fields[1].Value>> >>
          ELSE << SubfieldValues(fields[1].SubFields, Chars(subfields)) >>)
         \o FilterFields(Tail(fields), tag, subfields)

Filter(fmlRecord, query) ==
    FilterFields(fmlRecord.Fields, QueryTag(query), QueryCodes(query))

\* fmlRecord.DataField(tag)
DataField(fmlRecord, tag) ==
    SelectSeq(fmlRecord.Fields, LAMBDA f : f.Tag = tag /\ ~f.Control)

\* stringInSlice
stringInSlice(a, list) == \E i \in DOMAIN list : list[i] = a

\* filter, lines 237-242: the byte range of one joined value.  f[1] is an
\* index out of range when Bytes holds no ":", and v[first:first+take]
\* panics when the range does not lie within v.
byteRange(v, bytes) ==
    LET f == Split(bytes, ":")
    IN  IF Len(f) < 2 THEN Panic("index")
        ELSE LET first == Atoi(f[1])
                 take  == Atoi(f[2])
             IN  IF SliceOk(v, first, AddInt(first, take))
                 THEN Ok(Slice(v, first, AddInt(first, take)))
                 ELSE Panic("bounds")

\* filter, lines 235-244: the loop over the occurrences, field the Field
RECURSIVE filterValues(_, _, _)
filterValues(values, field, stuff) ==
    IF values = <<>> THEN Ok(stuff)
    ELSE LET v == Join(Head(values), " ")
             o == IF field.Bytes # "" THEN byteRange(v, field.Bytes) ELSE Ok(v)
         IN  IF o.panic # "none" THEN Panic(o.panic)
             ELSE filterValues(Tail(values), field, Append(stuff, o.val))

\* filter with the byte range parsed before the loop over the occurrences,
\* so that a range with no length panics although nothing is cut
filterParsesFirst(fmlRecord, field) ==
    IF field = <<>> THEN Panic("nilfield")
    ELSE IF field[1].Bytes # "" /\ Len(Split(field[1].Bytes, ":")) < 2
    THEN Panic("index")
    ELSE filterValues(Filter(fmlRecord, field[1].Tag \o field[1].Subfields),
                      field[1], <<>>)

\* filter, field a *Field: field.Tag at line 234 dereferences a nil one;
\* Tag and Subfields reach Filter as one string, tag first
filter(fmlRecord, field) ==
    IF field = <<>> THEN Panic("nilfield")
    ELSE filterValues(Filter(fmlRecord, field[1].Tag \o field[1].Subfields),
                      field[1], <<>>)

\* getRules: the first rule with the label, or nil; v.Label at line 285
\* dereferences a nil entry the loop comes to
RECURSIVE getRules(_, _)
getRules(rules, label) ==
    IF rules = <<>> THEN Ok(<<>>)
    ELSE IF rules[1] = <<>> THEN Panic("nilentry")
    ELSE IF rules[1][1].Label = label THEN Ok(rules[1])
    ELSE getRules(Tail(rules), label)

\* appendNew without the stringInSlice test: every value is appended
appendAll(field, f) == field \o f

RECURSIVE appendNew(_, _)
appendNew(field, f) ==
    IF f = <<>> THEN field
    ELSE appendNew(IF stringInSlice(f[1], field) THEN field ELSE Append(field, f[1]),
                   Tail(f))

RECURSIVE extractFields(_, _, _)
extractFields(fields, fmlRecord, field) ==
    IF fields = <<>> THEN Ok(field)
    ELSE LET f == filter(fmlRecord, fields[1])
         IN  IF f.panic # "none" THEN Panic(f.panic)
             ELSE extractFields(Tail(fields), fmlRecord, appendNew(field, f.val))

\* extractData: rule.Fields dereferences a nil rule
extractData(rule, fmlRecord) ==
    IF rule = <<>> THEN Panic("nilrule")
    ELSE extractFields(rule[1].Fields, fmlRecord, <<>>)

\* applyRule
applyRule(fmlRecord, rules, field) ==
    LET recordFieldRule == getRules(rules, field)
    IN  IF recordFieldRule.panic # "none" THEN Panic(recordFieldRule.panic)
        ELSE extractData(recordFieldRule.val, fmlRecord)

\* The loop of getContributors and of getRelatedItems: y.Kind = r.Kind
\* dereferences a nil *Field before filter is called
RECURSIVE kindValues(_, _, _)
kindValues(fields, fmlRecord, c) ==
    IF fields = <<>> THEN Ok(c)
    ELSE IF fields[1] = <<>> THEN Panic("nilfield")
    ELSE LET f == filter(fmlRecord, fields[1])
         IN  IF f.panic # "none" THEN Panic(f.panic)
             ELSE kindValues(Tail(fields), fmlRecord,
                             IF f.val # <<>>
                             THEN Append(c, [Kind |-> fields[1][1].Kind, Value |-> f.val])
                             ELSE c)

\* getContributors: recordFieldRule.Fields dereferences a nil rule
getContributors(fmlRecord, rules, field) ==
    LET recordFieldRule == getRules(rules, field)
    IN  IF recordFieldRule.panic # "none" THEN Panic(recordFieldRule.panic)
        ELSE IF recordFieldRule.val = <<>> THEN Panic("nilrule")
        ELSE kindValues(recordFieldRule.val[1].Fields, fmlRecord, <<>>)

\* getRelatedItems
getRelatedItems(fmlRecord, rules, field) ==
    LET recordFieldRule == getRules(rules, field)
    IN  IF recordFieldRule.panic # "none" THEN Panic(recordFieldRule.panic)
        ELSE IF recordFieldRule.val = <<>> THEN Panic("nilrule")
        ELSE kindValues(recordFieldRule.val[1].Fields, fmlRecord, <<>>)

(***************************************************************************)
(* Derived fields                                                          *)
(***************************************************************************)

\* literaryForm
literaryForm(x) ==
    IF x = <<>> THEN ""
    ELSE IF x[1] \in {"0", "s", "e"} THEN "nonfiction" ELSE "fiction"

\* contentType without the default label: a byte outside the switch keeps
\* the zero value of t
contentTypeNoDefault(x) ==
    CASE x \in {"c", "d"} -> "Musical score"
      [] x \in {"e", "f"} -> "Cartographic material"
      [] x = "g" -> "Moving image"
      [] x \in {"i", "j"} -> "Sound recording"
      [] x = "k" -> "Still image"
      [] x = "m" -> "Computer file"
      [] x = "o" -> "Kit"
      [] x = "p" -> "Mixed materials"
      [] x = "r" -> "Object"
      [] OTHER -> ""

\* contentType, of the leader byte given as a one-byte string
contentType(x) ==
    CASE x \in {"c", "d"} -> "Musical score"
      [] x \in {"e", "f"} -> "Cartographic material"
      [] x = "g" -> "Moving image"
      [] x \in {"i", "j"} -> "Sound recording"
      [] x = "k" -> "Still image"
      [] x = "m" -> "Computer file"
      [] x = "o" -> "Kit"
      [] x = "p" -> "Mixed materials"
      [] x = "r" -> "Object"
      [] OTHER -> "Text"

\* contentType of the package parsers, of the leader byte as a one-byte
\* string
parsers_contentType(x) ==
    CASE x \in {"c", "d"} -> "Musical score"
      [] x \in {"e", "f"} -> "Cartographic material"
      [] x = "g" -> "Moving image"
      [] x \in {"i", "j"} -> "Sound recording"
      [] x = "k" -> "Still image"
      [] x = "m" -> "Computer file"
      [] x = "o" -> "Kit"
      [] x = "p" -> "Mixed materials"
      [] x = "r" -> "Object"
      [] OTHER -> "Text"

\* codeMap[c]: the zero value "" for a key the map does not hold
MapGet(codeMap, c) == IF c \in DOMAIN codeMap THEN codeMap[c] ELSE ""

\* TranslateCodes without the test of the name: a code with no name is
\* replaced by the empty string the map gives for it
RECURSIVE TranslateNoPassthrough(_, _)
TranslateNoPassthrough(recordCodes, codeMap) ==
    IF recordCodes = <<>> THEN <<>>
    ELSE <<MapGet(codeMap, recordCodes[1])>>
         \o TranslateNoPassthrough(Tail(recordCodes), codeMap)

\* TranslateCodes
RECURSIVE TranslateCodes(_, _)
TranslateCodes(recordCodes, codeMap) ==
    IF recordCodes = <<>> THEN <<>>
    ELSE LET name == MapGet(codeMap, recordCodes[1])
         IN  <<IF name # "" THEN name ELSE recordCodes[1]>>
             \o TranslateCodes(Tail(recordCodes), codeMap)

\* subfieldValue: the value of the first subfield with the code, or ""
RECURSIVE subfieldValue(_, _)
subfieldValue(subs, code) ==
    IF subs = <<>> THEN ""
    ELSE IF subs[1].Code = code THEN subs[1].Value
    ELSE subfieldValue(Tail(subs), code)

\* lookupCollection
lookupCollection(col, loc) ==
    CASE col = "STACK" -> "Stacks"
      [] col = "ATLCS" -> "Atlas Case"
      [] col = "AUDBK" -> "Audiobooks"
      [] col = "JRNAL" -> IF loc = "HUM" THEN "Humanities Journals"
           ELSE IF loc = "SCI" THEN "Science Journals"
           ELSE "Journal Collection"
      [] col = "BRWS" -> "Browsery"
      [] col = "CNSUS" -> "Census Collection"
      [] col = "CIRCD" -> "Service Desk"
      [] col = "DETEC" -> "Detective Fiction Collection"
      [] col = "EJ" -> "Electronic Journal"
      [] col = "GIS" -> "GIS Collection"
      [] col = "GOV" -> "Government Documents"
      [] col = "GRNVL" -> "Graphic Novel Collection"
      [] col = "HDCBX" -> "Harvard Depository Boxed Items"
      [] col = "ICPSR" -> "ICPSR Codebooks"
      [] col = "IMPLS" -> "Impulse Borrowing Display"
      [] col = "LSA4" -> "Journal Collection"
      [] col = "OVRSZ" -> "Oversize Materials"
      [] col = "LMTED" -> "Limited Access Collection"
      [] col = "MAPRM" -> "Map Room"
      [] col = "MFORM" -> "Microforms"
      [] col = "MEDIA" -> "Media"
      [] col = "NCIP" -> "BLC ILB Item"
      [] col = "NEWBK" -> "Science New Books Display"
      [] col = "NOLN1" -> "Noncirculating Collection 1"
      [] col = "NOLN2" -> "Noncirculating Collection 2"
      [] col = "NOLN3" -> "Noncirculating Collection 3"
      [] col = "OCC" -> "Off Campus Collection"
      [] col = "OCCBX" -> "Off Campus Collection Boxed Items"
      [] col = "OFFCT" -> "Offsite Cataloging"
      [] col = "PAMPH" -> "Pamphlet Collection"
      [] col = "PRECT" -> IF loc = "HUM" THEN "Humanities Pre-cataloged Collection"
           ELSE IF loc = "SCI" THEN "Science Pre-cataloged Collection"
           ELSE "Pre-cataloged Collection"
      [] col = "REF" -> "Reference Collection"
      [] col = "RSERV" -> "Reserve Stacks"
      [] col = "SWING" -> "Basement Grammar Books"
      [] col = "TRAVL" -> "Travel Collection"
      [] col = "UNCAT" -> "Uncataloged Materials - see Librarian"
      [] col = "UNKNW" -> "Problems Materials - see Librarian"
      [] col = "WSTM" -> "Women in Science, Technology, and Medicine"
      [] OTHER -> col

\* lookupLocation failing closed: a code the switch does not hold resolves
\* to the empty string
lookupLocationFailClosed(loc) ==
    CASE loc \in {"HUM", "RBR", "SCI"} -> "Hayden Library"
      [] loc = "MIT50" -> "MIT Administrative Library"
      [] loc = "ARC" -> "Institute Archives"
      [] loc = "ACQ" -> "Institute Archives"
      [] loc = "ENG" -> "Barker Library"
      [] loc = "CAT" -> "Cataloging and Metadata Services"
      [] loc = "DEW" -> "Dewey Library"
      [] loc = "DIR" -> "Director's Office"
      [] loc = "DOC" -> "Document Services"
      [] loc = "ILB" -> "Interlibrary Borrowing"
      [] loc = "LSA" -> "Library Storage Annex"
      [] loc = "NET" -> "Internet Resource"
      [] loc = "MUS" -> "Lewis Music Library"
      [] loc = "PHY" -> "Physics Department Reading Room"
      [] loc = "RTC" -> "Rotch Library"
      [] loc = "RVC" -> "Rotch Visual Collections"
      [] loc = "SPC" -> "Space Cntr: Ask library staff"
      [] loc = "OFFIC" -> "Office delivery"
      [] OTHER -> ""

\* lookupLocation
lookupLocation(loc) ==
    CASE loc \in {"HUM", "RBR", "SCI"} -> "Hayden Library"
      [] loc = "MIT50" -> "MIT Administrative Library"
      [] loc = "ARC" -> "Institute Archives"
      [] loc = "ACQ" -> "Institute Archives"
      [] loc = "ENG" -> "Barker Library"
      [] loc = "CAT" -> "Cataloging and Metadata Services"
      [] loc = "DEW" -> "Dewey Library"
      [] loc = "DIR" -> "Director's Office"
      [] loc = "DOC" -> "Document Services"
      [] loc = "ILB" -> "Interlibrary Borrowing"
      [] loc = "LSA" -> "Library Storage Annex"
      [] loc = "NET" -> "Internet Resource"
      [] loc = "MUS" -> "Lewis Music Library"
      [] loc = "PHY" -> "Physics Department Reading Room"
      [] loc = "RTC" -> "Rotch Library"
      [] loc = "RVC" -> "Rotch Visual Collections"
      [] loc = "SPC" -> "Space Cntr: Ask library staff"
      [] loc = "OFFIC" -> "Office delivery"
      [] OTHER -> loc

\* lookupFormat, the switch of lines 594-629
formatOfCode(format_code) ==
    CASE format_code \in {"BOOKS", "REGULAR"} -> "Print volume"
      [] format_code = "ATLAS" -> "Atlas"
      [] format_code \in {"AUDIO", "AUDTAPE"} -> "Audio tape"
      [] format_code = "CD" -> "Compact disc"
      [] format_code = "CDROM" -> "CD-ROM"
      [] format_code = "DSKETTE" -> "Diskette"
      [] format_code = "DVD" -> "DVD-ROM"
      [] format_code = "FICHE" -> "Microfiche"
      [] format_code \in {"FOLIO", "OVRSIZE"} -> "Oversized print volume"
      [] format_code = "MAP" -> "Map sheet"
      [] format_code = "MFILM" -> "Microfilm"
      [] format_code = "RECORD" -> "Audio record"
      [] format_code = "SCORE" -> "Musical score"
      [] format_code = "SMALL" -> "Undersized print volume"
      [] format_code = "VDISC" -> "Videodisc"
      [] format_code = "VHS" -> "VHS"
      [] OTHER -> "Print volume"


\* lookupFormat: "" for the location "Internet Resource"
lookupFormat(loc, format_code) ==
    IF loc # "Internet Resource" THEN formatOfCode(format_code) ELSE ""

\* The indicator test of getLinks with the second indicator left out
IsLinkAnySecond(f) == f.Indicator1 = "4"

\* getLinks, line 394: the indicators of a link
IsLink(f) == f.Indicator1 = "4" /\ (f.Indicator2 = "0" \/ f.Indicator2 = "1")

linkOf(f) ==
    LET kind == subfieldValue(f.SubFields, "3")
    IN  [Kind         |-> IF kind = "" THEN "unknown" ELSE kind,
         URL          |-> subfieldValue(f.SubFields, "u"),
         Text         |-> subfieldValue(f.SubFields, "y"),
         Restrictions |-> subfieldValue(f.SubFields, "z")]

\* getLinks
getLinks(fmlRecord) ==
    LET marc856 == SelectSeq(DataField(fmlRecord, "856"), IsLink)
    IN  [i \in 1..Len(marc856) |-> linkOf(marc856[i])]

holdingOf(f, tag, subfieldCodes) ==
    LET Location == lookupLocation(subfieldValue(f.SubFields, subfieldCodes[1]))
    IN  [Location   |-> Location,
         Collection |-> lookupCollection(subfieldValue(f.SubFields, subfieldCodes[2]),
                                         subfieldValue(f.SubFields, subfieldCodes[1])),
         CallNumber |-> subfieldValue(f.SubFields, subfieldCodes[3]),
         Summary    |-> subfieldValue(f.SubFields, subfieldCodes[4]),
         Notes      |-> subfieldValue(f.SubFields, subfieldCodes[5]),
         Format     |-> IF tag = "866" THEN "Print volume"
                        ELSE lookupFormat(Location,
                                          subfieldValue(f.SubFields, subfieldCodes[6]))]

\* getHoldings
getHoldings(fmlRecord, tag, subfieldCodes) ==
    LET df == DataField(fmlRecord, tag)
    IN  [i \in 1..Len(df) |-> holdingOf(df[i], tag, subfieldCodes)]

RECURSIVE formatsOf(_, _)
formatsOf(holdings, format) ==
    IF holdings = <<>> THEN format
    ELSE formatsOf(Tail(holdings),
                   IF stringInSlice(holdings[1].Format, format) THEN format
                   ELSE Append(format, holdings[1].Format))

(***************************************************************************)
(* marcToRecord                                                            *)
(***************************************************************************)

\* The labels marcToRecord looks up, in the order of its statements: the
\* first three up to the title gate, the others after it.
GateLabels == <<"oclc_number", "lccn", "title">>

RestLabels ==
    <<"alternate_titles", "creators", "contributors", "related_place",
      "related_items", "in_bibliography", "subjects", "isbns", "issns", "dois",
      "place_of_publication", "languages", "call_numbers", "edition", "imprint",
      "physical_description", "publication_frequency", "publication_date",
      "numbering", "notes", "contents", "summary", "literary_form">>

MapLabels == GateLabels \o RestLabels

\* The call marcToRecord makes for a label
lookupLabel(fmlRecord, rules, label) ==
    IF label = "contributors" THEN getContributors(fmlRecord, rules, label)
    ELSE IF label = "related_items" THEN getRelatedItems(fmlRecord, rules, label)
    ELSE applyRule(fmlRecord, rules, label)

LabelSet == {MapLabels[i] : i \in DOMAIN MapLabels}

\* The outcome of the call marcToRecord makes for each label.  The calls
\* are independent of each other, so each is evaluated here once and
\* marcToRecord's statements read their results in statement order.
labelOutcomes(fmlRecord, rules) ==
    [label \in LabelSet |-> lookupLabel(fmlRecord, rules, label)]

\* The panic of the first call, in the order of labels, that panics
RECURSIVE firstPanic(_, _)
firstPanic(o, labels) ==
    IF labels = <<>> THEN "none"
    ELSE IF o[labels[1]].panic # "none" THEN o[labels[1]].panic
    ELSE firstPanic(o, Tail(labels))

first(x) == IF x # <<>> THEN x[1] ELSE ""

NoRecord == [Identifier |-> ""]

\* The Record at the return of line 117: what was assigned before the gate
gateRecord(fmlRecord, o) ==
    [Identifier |-> fmlRecord.ControlNum,
     Source     |-> "MIT Aleph",
     SourceLink |-> "https://library.mit.edu/item/" \o fmlRecord.ControlNum,
     OclcNumber |-> o["oclc_number"].val,
     Lccn       |-> IF o["lccn"].val # <<>> THEN TrimSpace(o["lccn"].val[1]) ELSE ""]

\* The holdings of both tag families, the 866 ones first
recordHoldingsBoth(fmlRecord) ==
    getHoldings(fmlRecord, "866", <<"b", "c", "h", "a", "z">>)
    \o getHoldings(fmlRecord, "852", <<"b", "c", "h", "a", "z", "k">>)

\* marcToRecord, lines 184-188: the 866 holdings, or the 852 ones when
\* there is none
recordHoldings(fmlRecord) ==
    IF Len(getHoldings(fmlRecord, "866", <<"b", "c", "h", "a", "z">>)) = 0
    THEN getHoldings(fmlRecord, "852", <<"b", "c", "h", "a", "z", "k">>)
    ELSE getHoldings(fmlRecord, "866", <<"b", "c", "h", "a", "z">>)

\* marcToRecord, lines 135-139
recordCountry(country, countryCodes) ==
    IF country # <<>>
    THEN TranslateCodes(<<Trim(country[1], {" ", "|"})>> \o Tail(country),
                        countryCodes)[1]
    ELSE ""

\* The Record at the return of line 196
fullRecord(fmlRecord, o, languageCodes, countryCodes) ==
    [Identifier           |-> fmlRecord.ControlNum,
     Source               |-> "MIT Aleph",
     SourceLink           |-> "https://library.mit.edu/item/" \o fmlRecord.ControlNum,
     OclcNumber           |-> o["oclc_number"].val,
     Lccn                 |-> IF o["lccn"].val # <<>>
                              THEN TrimSpace(o["lccn"].val[1]) ELSE "",
     Title                |-> o["title"].val[1],
     AlternateTitles      |-> o["alternate_titles"].val,
     Creator              |-> o["creators"].val,
     Contributor          |-> o["contributors"].val,
     RelatedPlace         |-> o["related_place"].val,
     RelatedItems         |-> o["related_items"].val,
     InBibliography       |-> o["in_bibliography"].val,
     Subject              |-> o["subjects"].val,
     Isbn                 |-> o["isbns"].val,
     Issn                 |-> o["issns"].val,
     Doi                  |-> o["dois"].val,
     Country              |-> recordCountry(o["place_of_publication"].val, countryCodes),
     Language             |-> TranslateCodes(o["languages"].val, languageCodes),
     CallNumber           |-> o["call_numbers"].val,
     Edition              |-> first(o["edition"].val),
     Imprint              |-> o["imprint"].val,
     PhysicalDescription  |-> first(o["physical_description"].val),
     PublicationFrequency |-> o["publication_frequency"].val,
     PublicationDate      |-> first(o["publication_date"].val),
     Numbering            |-> first(o["numbering"].val),
     Notes                |-> o["notes"].val,
     Contents             |-> o["contents"].val,
     Summary              |-> o["summary"].val,
     ContentType          |-> contentType(fmlRecord.LeaderType),
     LiteraryForm         |-> literaryForm(o["literary_form"].val),
     Links                |-> getLinks(fmlRecord),
     Holdings             |-> recordHoldings(fmlRecord),
     Format               |-> formatsOf(recordHoldings(fmlRecord), <<>>)]

\* mapOutcome with the gate's error lost (return r, nil): the variant the
\* title gate must tell from the code
mapOutcomeGateNoError(fmlRecord, o, languageCodes, countryCodes) ==
    IF firstPanic(o, GateLabels) # "none"
    THEN [panic |-> firstPanic(o, GateLabels), err |-> FALSE, r |-> NoRecord]
    ELSE IF o["title"].val = <<>>
    THEN [panic |-> "none", err |-> FALSE, r |-> gateRecord(fmlRecord, o)]
    ELSE IF firstPanic(o, RestLabels) # "none"
    THEN [panic |-> firstPanic(o, RestLabels), err |-> FALSE, r |-> NoRecord]
    ELSE [panic |-> "none", err |-> FALSE,
          r |-> fullRecord(fmlRecord, o, languageCodes, countryCodes)]

\* marcToRecord's statements over the outcomes o of its calls: [panic, err,
\* r].  panic # "none": the call did not return.  err: the error returned
\* (TRUE for "Record ... has no title").
mapOutcome(fmlRecord, o, languageCodes, countryCodes) ==
    IF firstPanic(o, GateLabels) # "none"
    THEN [panic |-> firstPanic(o, GateLabels), err |-> FALSE, r |-> NoRecord]
    ELSE IF o["title"].val = <<>>
    THEN [panic |-> "none", err |-> TRUE, r |-> gateRecord(fmlRecord, o)]
    ELSE IF firstPanic(o, RestLabels) # "none"
    THEN [panic |-> firstPanic(o, RestLabels), err |-> FALSE, r |-> NoRecord]
    ELSE [panic |-> "none", err |-> FALSE,
          r |-> fullRecord(fmlRecord, o, languageCodes, countryCodes)]

\* marcToRecord
marcToRecord(fmlRecord, rules, languageCodes, countryCodes) ==
    mapOutcome(fmlRecord, labelOutcomes(fmlRecord, rules), languageCodes, countryCodes)

(***************************************************************************)
(* Code tables (RetrieveCodelist)                                          *)
(*                                                                         *)
(* A code table file: [exists, elems, good].  elems are its elements in    *)
(* document order, each [Local, Code, Name] (the element's name and its    *)
(* <code> and <name> children, "" when missing); good is the number of     *)
(* elements the decoder yields before Token returns nil (the end of the    *)
(* file, or a syntax error).                                               *)
(***************************************************************************)

\* RetrieveCodelist, lines 352-369: codes[c.Code] = c.Name for every start
\* element named codeType, a later element overwriting an earlier one.
RetrieveCodelist(codeType, file) ==
    LET seen == SelectSeq(SubSeq(file.elems, 1, file.good),
                          LAMBDA e : e.Local = codeType)
        last(c) == CHOOSE i \in DOMAIN seen :
                       /\ seen[i].Code = c
                       /\ \A j \in DOMAIN seen : seen[j].Code = c => j <= i
    IN  [c \in {seen[i].Code : i \in DOMAIN seen} |-> seen[last(c)].Name]

(***************************************************************************)
(* Inputs: the configuration and the records the checks enumerate          *)
(***************************************************************************)

\* The largest number of records of an input stream
MaxRecords == 3

\* The largest number of fields of a record, of Field specs of a rule and of
\* codes of a code list, where the mapping functions are applied alone
MaxFields == 3

MaxSpecs == 2

MaxCodes == 3

SeqsUpTo(S, n) == UNION {[1..k -> S] : k \in 0..n}

Sub(code, value) == [Code |-> code, Value |-> value]

DataF(tag, ind1, ind2, subs) ==
    [Tag |-> tag, Control |-> FALSE, Value |-> "",
     Indicator1 |-> ind1, Indicator2 |-> ind2, SubFields |-> subs]

ControlF(tag, value) ==
    [Tag |-> tag, Control |-> TRUE, Value |-> value,
     Indicator1 |-> "", Indicator2 |-> "", SubFields |-> <<>>]

\* A *Field that is not nil
FieldSpec(tag, subfields, bytes, kind) ==
    <<[Tag |-> tag, Subfields |-> subfields, Bytes |-> bytes, Kind |-> kind]>>

Rec(controlNum, leaderType, fields) ==
    [ControlNum |-> controlNum, LeaderType |-> leaderType, Fields |-> fields]

\* A 40 byte 008 field, one cut short, and one cut short that ends with
\* U+00E9, a character of two bytes: 11 bytes
Full008 == "850101s1985    xxu           000 1 eng d"

Short008 == "850101s19"

Accent008 == "850101s19Ã©"

\* A rules file with a rule for every label marcToRecord looks up
FieldsOfLabel(label) ==
    CASE label = "oclc_number" -> <<FieldSpec("035", "a", "", "")>>
      [] label = "lccn" -> <<FieldSpec("010", "a", "", "")>>
      [] label = "title" -> <<FieldSpec("245", "ab", "", "")>>
      [] label = "creators" -> <<FieldSpec("100", "a", "", "")>>
      [] label = "contributors" ->
             <<FieldSpec("700", "a", "", "author"), FieldSpec("710", "a", "", "corporate")>>
      [] label = "related_items" -> <<FieldSpec("780", "t", "", "preceding")>>
      [] label = "subjects" ->
             <<FieldSpec("650", "a", "", ""), FieldSpec("651", "a", "", "")>>
      [] label = "place_of_publication" -> <<FieldSpec("008", "", "15:3", "")>>
      [] label = "languages" ->
             <<FieldSpec("008", "", "35:3", ""), FieldSpec("041", "a", "", "")>>
      [] label = "publication_date" -> <<FieldSpec("008", "", "7:4", "")>>
      [] label = "literary_form" -> <<FieldSpec("008", "", "33:1", "")>>
      [] label = "edition" -> <<FieldSpec("250", "a", "0:3", "")>>
      [] OTHER -> <<FieldSpec("500", "a", "", "")>>

\* A *Rule that is not nil
RuleOf(label) ==
    <<[Label |-> label, Array |-> TRUE, Fields |-> FieldsOfLabel(label)]>>

FullRules == [i \in 1..Len(MapLabels) |-> RuleOf(MapLabels[i])]

Without(rs, label) == SelectSeq(rs, LAMBDA r : r[1].Label # label)

\* rs with the Field specs of the rule for label replaced
WithFields(rs, label, fields) ==
    [i \in 1..Len(rs) |->
        IF rs[i][1].Label = label THEN <<[rs[i][1] EXCEPT !.Fields = fields]>>
        ELSE rs[i]]

\* The same rules, the byte range of the publication date lacking its length
MalformedRules ==
    WithFields(FullRules, "publication_date", <<FieldSpec("008", "", "7", "")>>)

\* The content of a rules file, as encoding/json reads it: json tells
\* whether the file is no JSON text ("invalid"), the value null, an array,
\* or a value of another type ("other"); elems are the elements of the
\* array.  An element is null, an object, or a value of another type; of an
\* object, members are the Rule its members spell and mistyped the members
\* whose value has a type the Rule's field cannot take.
JNull == [json |-> "null", members |-> <<>>, mistyped |-> {}]

JOther == [json |-> "other", members |-> <<>>, mistyped |-> {}]

JObject(rule, mistyped) == [json |-> "object", members |-> rule, mistyped |-> mistyped]

JArray(elems) == [exists |-> TRUE, json |-> "array", elems |-> elems]

\* The array that spells the rules rs
JRules(rs) ==
    JArray([i \in 1..Len(rs) |-> IF rs[i] = <<>> THEN JNull ELSE JObject(rs[i][1], {})])

NoFile == [exists |-> FALSE, json |-> "invalid", elems |-> <<>>]

\* The rules files: none; one that is no JSON; the full rules; the rules
\* without the title rule and without the summary rule; the rules with a
\* byte range lacking its length; the full rules with "array" given as a
\* string in the first rule; the full rules after a null element; the rules
\* whose title rule gives the last byte of the tag with the subfields
RulesFiles ==
    {NoFile,
     [exists |-> TRUE, json |-> "invalid", elems |-> <<>>],
     JRules(FullRules),
     JRules(Without(FullRules, "title")),
     JRules(Without(FullRules, "summary")),
     JRules(MalformedRules),
     JArray(<<JObject(FullRules[1][1], {"array"})>> \o Tail(JRules(FullRules).elems)),
     JRules(<< <<>> >> \o FullRules),
     JRules(WithFields(FullRules, "title", <<FieldSpec("24", "5ab", "", "")>>))}

CodeElems(codeType) ==
    IF codeType = "language"
    THEN <<[Local |-> "codelist", Code |-> "", Name |-> ""],
           [Local |-> "language", Code |-> "eng", Name |-> "English"],
           [Local |-> "language", Code |-> "fre", Name |-> "French"]>>
    ELSE <<[Local |-> "codelist", Code |-> "", Name |-> ""],
           [Local |-> "country", Code |-> "xxu", Name |-> "United States"],
           [Local |-> "country", Code |-> "fr", Name |-> "France"]>>

CodeFiles(codeType) ==
    {[exists |-> FALSE, elems |-> <<>>, good |-> 0],
     [exists |-> TRUE, elems |-> CodeElems(codeType), good |-> 1],
     [exists |-> TRUE, elems |-> CodeElems(codeType), good |-> 3]}

\* The records of the input streams: one that maps (its edition, of three
\* bytes, ends with U+00E9), one without a title,
\* one whose 008 is shorter than the byte ranges of the rules, one with a
\* title and nothing else
StreamRecords ==
    {Rec("001", "a", <<ControlF("008", Full008),
                       DataF("245", "1", "0", <<Sub("a", "Dune"), Sub("b", "a novel")>>),
                       DataF("250", " ", " ", <<Sub("a", "2Ã©")>>),
                       DataF("650", " ", "0", <<Sub("a", "Sand")>>),
                       DataF("651", " ", "0", <<Sub("a", "Sand")>>),
                       DataF("856", "4", "0", <<Sub("u", "http://x")>>),
                       DataF("852", " ", " ", <<Sub("b", "HUM"), Sub("c", "STACK")>>)>>),
     Rec("002", "a", <<ControlF("008", Full008),
                       DataF("650", " ", "0", <<Sub("a", "Sand")>>)>>),
     Rec("003", "g", <<ControlF("008", Short008),
                       DataF("245", "1", "0", <<Sub("a", "Solaris")>>)>>),
     Rec("004", "a", <<DataF("245", "1", "0", <<Sub("a", "Ubik")>>)>>)}

\* What the iterator yields for one record: mr.Value()'s record and error
StreamItems ==
    {[err |-> FALSE, record |-> r] : r \in StreamRecords}
    \cup {[err |-> TRUE, record |-> Rec("", "", <<>>)]}

(***************************************************************************)
(* State                                                                   *)
(***************************************************************************)
VARIABLES
    rulesFile,      \* the file m.rulesfile names
    languagesFile,  \* config/languages.xml
    countriesFile,  \* config/countries.xml
    marcfile,       \* m.marcfile: what the record iterator will yield
    gpc,            \* Generate: the statement it is at
    rules,          \* Generate's rules, then marcparser.rules
    rulesErr,       \* whether RetrieveRules returned an error (dumped, line 54)
    languageCodes,  \* marcparser.languageCodes
    countryCodes,   \* marcparser.countryCodes
    ppc,            \* parse: "idle" (not started), "next", "send", "done"
    idx,            \* the number of records the iterator has yielded
    pending,        \* the Records parse is blocked sending (none or one)
    closed,         \* whether out is closed
    logged,         \* the records parse logged and skipped: [i, why]
    crash,          \* why the process died ("none": it is alive)
    cpc,            \* the consumer: "idle" (no channel yet), "recv", "eos"
    received,       \* the Records the consumer has received, in order
    call,           \* a mapping function applied alone: its name and arguments
    ret             \* ... and what it returned

ingestVars ==
    <<rulesFile, languagesFile, countriesFile, marcfile, gpc, rules, rulesErr,
      languageCodes, countryCodes, ppc, idx, pending, closed, logged, crash,
      cpc, received>>

callVars == <<call, ret>>

vars == <<ingestVars, callVars>>

NoCall == [fn |-> "none"]

\* The capacity of the channel Generate makes: make(chan Record)
ChanCap == 0

(***************************************************************************)
(* The ingest run: Generate, the producer parse, and the consumer          *)
(***************************************************************************)

IngestIdle ==
    /\ gpc = "done" /\ rules = <<>> /\ rulesErr = FALSE
    /\ languageCodes = <<>> /\ countryCodes = <<>>
    /\ ppc = "idle" /\ idx = 0 /\ pending = <<>> /\ closed = FALSE
    /\ logged = <<>> /\ crash = "none" /\ cpc = "idle" /\ received = <<>>
    /\ marcfile = <<>>
    /\ rulesFile = NoFile
    /\ languagesFile = [exists |-> FALSE, elems |-> <<>>, good |-> 0]
    /\ countriesFile = [exists |-> FALSE, elems |-> <<>>, good |-> 0]

CallIdle == call = NoCall /\ ret = <<>>

Init ==
    /\ rulesFile \in RulesFiles
    /\ languagesFile \in CodeFiles("language")
    /\ countriesFile \in CodeFiles("country")
    /\ marcfile \in SeqsUpTo(StreamItems, MaxRecords)
    /\ gpc = "rules" /\ rules = <<>> /\ rulesErr = FALSE
    /\ languageCodes = <<>> /\ countryCodes = <<>>
    /\ ppc = "idle" /\ idx = 0 /\ pending = <<>> /\ closed = FALSE
    /\ logged = <<>> /\ crash = "none" /\ cpc = "idle" /\ received = <<>>
    /\ CallIdle

Alive == crash = "none"

\* What Decode stores for an element of the array: nil for null; for any
\* other value a new Rule, in which a member that is missing or mistyped
\* leaves the zero value
DecodeRule(e) ==
    IF e.json = "null" THEN <<>>
    ELSE IF e.json = "other" THEN <<[Label |-> "", Array |-> FALSE, Fields |-> <<>>]>>
    ELSE <<[Label  |-> IF "label" \in e.mistyped THEN "" ELSE e.members.Label,
            Array  |-> IF "array" \in e.mistyped THEN FALSE ELSE e.members.Array,
            Fields |-> IF "fields" \in e.mistyped THEN <<>> ELSE e.members.Fields]>>

\* Decode's error for a value of the wrong type: it goes on decoding and
\* returns the error at the end
TypeError(e) == e.json = "other" \/ e.mistyped # {}

\* RetrieveRules, [rules, err]: nil and the error when the file cannot be
\* opened (lines 20-23); else what Decode left in rules, and its error
\* (lines 31-34): nil and an error for a text that is no JSON or a value
\* that is no array, nil and no error for null, and for an array its
\* elements decoded, with an error when a value in it has the wrong type
RetrieveRules(file) ==
    IF ~file.exists THEN [rules |-> <<>>, err |-> TRUE]
    ELSE IF file.json = "array"
    THEN [rules |-> [i \in 1..Len(file.elems) |-> DecodeRule(file.elems[i])],
          err |-> \E i \in 1..Len(file.elems) : TypeError(file.elems[i])]
    ELSE [rules |-> <<>>, err |-> file.json # "null"]

\* Generate, lines 52-55: the error is dumped and Generate goes on
GenRetrieveRules ==
    /\ Alive /\ gpc = "rules"
    /\ rules' = RetrieveRules(rulesFile).rules
    /\ rulesErr' = RetrieveRules(rulesFile).err
    /\ gpc' = "languages"
    /\ UNCHANGED <<rulesFile, languagesFile, countriesFile, marcfile, languageCodes,
                   countryCodes, ppc, idx, pending, closed, logged, crash, cpc,
                   received, callVars>>

\* Generate, lines 57-60.  RetrieveCodelist ends the process (log.Fatal)
\* when the file cannot be opened, and returns no other error.
GenRetrieveLanguages ==
    /\ Alive /\ gpc = "languages"
    /\ IF languagesFile.exists
       THEN /\ languageCodes' = RetrieveCodelist("language", languagesFile)
            /\ gpc' = "countries"
            /\ UNCHANGED crash
       ELSE /\ crash' = "fatal"
            /\ UNCHANGED <<languageCodes, gpc>>
    /\ UNCHANGED <<rulesFile, languagesFile, countriesFile, marcfile, rules, rulesErr,
                   countryCodes, ppc, idx, pending, closed, logged, cpc, received,
                   callVars>>

\* Generate, lines 62-65
GenRetrieveCountries ==
    /\ Alive /\ gpc = "countries"
    /\ IF countriesFile.exists
       THEN /\ countryCodes' = RetrieveCodelist("country", countriesFile)
            /\ gpc' = "spawn"
            /\ UNCHANGED crash
       ELSE /\ crash' = "fatal"
            /\ UNCHANGED <<countryCodes, gpc>>
    /\ UNCHANGED <<rulesFile, languagesFile, countriesFile, marcfile, rules, rulesErr,
                   languageCodes, ppc, idx, pending, closed, logged, cpc, received,
                   callVars>>

\* Generate, lines 67-70: make the channel and start parse
GenSpawn ==
    /\ Alive /\ gpc = "spawn"
    /\ ppc' = "next"
    /\ gpc' = "return"
    /\ UNCHANGED <<rulesFile, languagesFile, countriesFile, marcfile, rules, rulesErr,
                   languageCodes, countryCodes, idx, pending, closed, logged, crash,
                   cpc, received, callVars>>

\* Generate, line 71: the caller has the channel and starts receiving
GenReturn ==
    /\ Alive /\ gpc = "return"
    /\ gpc' = "done"
    /\ cpc' = "recv"
    /\ UNCHANGED <<rulesFile, languagesFile, countriesFile, marcfile, rules, rulesErr,
                   languageCodes, countryCodes, ppc, idx, pending, closed, logged,
                   crash, received, callVars>>

\* What parse computes for the record the iterator yields next
Mapped(i) == marcToRecord(marcfile[i].record, rules, languageCodes, countryCodes)

\* ParseDecodeError with break for continue: the decode error ends the loop
\* and the channel is closed
ParseDecodeErrorBreaks ==
    /\ Alive /\ ppc = "next" /\ idx < Len(marcfile)
    /\ marcfile[idx + 1].err
    /\ idx' = idx + 1
    /\ logged' = Append(logged, [i |-> idx + 1, why |-> "decode"])
    /\ closed' = TRUE
    /\ ppc' = "done"
    /\ UNCHANGED <<rulesFile, languagesFile, countriesFile, marcfile, gpc, rules,
                   rulesErr, languageCodes, countryCodes, pending, crash,
                   cpc, received, callVars>>

\* parse, lines 77-85: the iterator reports an error; log and continue.
\* What is logged comes from fml: ControlNum() of the record Value()
\* returned beside the error, and the printing of that record.  These
\* calls are taken to return, as Next() and Value() are.
ParseDecodeError ==
    /\ Alive /\ ppc = "next" /\ idx < Len(marcfile)
    /\ marcfile[idx + 1].err
    /\ idx' = idx + 1
    /\ logged' = Append(logged, [i |-> idx + 1, why |-> "decode"])
    /\ UNCHANGED <<rulesFile, languagesFile, countriesFile, marcfile, gpc, rules,
                   rulesErr, languageCodes, countryCodes, ppc, pending, closed, crash,
                   cpc, received, callVars>>

\* parse, line 87: marcToRecord panics.  Nothing recovers a panic of the
\* goroutine, so the process dies.
ParsePanic ==
    /\ Alive /\ ppc = "next" /\ idx < Len(marcfile)
    /\ ~marcfile[idx + 1].err
    /\ \E m \in {Mapped(idx + 1)} :
          /\ m.panic # "none"
          /\ crash' = m.panic
    /\ idx' = idx + 1
    /\ UNCHANGED <<rulesFile, languagesFile, countriesFile, marcfile, gpc, rules,
                   rulesErr, languageCodes, countryCodes, ppc, pending, closed, logged,
                   cpc, received, callVars>>

\* parse, lines 87-89: marcToRecord returns an error; log and go on
ParseMapError ==
    /\ Alive /\ ppc = "next" /\ idx < Len(marcfile)
    /\ ~marcfile[idx + 1].err
    /\ \E m \in {Mapped(idx + 1)} : m.panic = "none" /\ m.err
    /\ idx' = idx + 1
    /\ logged' = Append(logged, [i |-> idx + 1, why |-> "map"])
    /\ UNCHANGED <<rulesFile, languagesFile, countriesFile, marcfile, gpc, rules,
                   rulesErr, languageCodes, countryCodes, ppc, pending, closed, crash,
                   cpc, received, callVars>>

\* ParseMapOk with the send left out: the Record is built and dropped
ParseMapOkDropped ==
    /\ Alive /\ ppc = "next" /\ idx < Len(marcfile)
    /\ ~marcfile[idx + 1].err
    /\ \E m \in {Mapped(idx + 1)} : m.panic = "none" /\ ~m.err
    /\ idx' = idx + 1
    /\ UNCHANGED <<rulesFile, languagesFile, countriesFile, marcfile, gpc, rules,
                   rulesErr, languageCodes, countryCodes, ppc, pending, closed, logged,
                   crash, cpc, received, callVars>>

\* ParseMapOk with a send that does not wait for the consumer: the Record
\* is queued and parse goes on to the next record
ParseMapOkNoWait ==
    /\ Alive /\ ppc = "next" /\ idx < Len(marcfile)
    /\ ~marcfile[idx + 1].err
    /\ \E m \in {Mapped(idx + 1)} :
          /\ m.panic = "none" /\ ~m.err
          /\ pending' = Append(pending, [r |-> m.r, from |-> idx + 1])
    /\ idx' = idx + 1
    /\ UNCHANGED <<rulesFile, languagesFile, countriesFile, marcfile, gpc, rules,
                   rulesErr, languageCodes, countryCodes, ppc, closed, logged, crash,
                   cpc, received, callVars>>

\* parse, lines 87-91: marcToRecord returns a Record; parse reaches the send
ParseMapOk ==
    /\ Alive /\ ppc = "next" /\ idx < Len(marcfile)
    /\ ~marcfile[idx + 1].err
    /\ \E m \in {Mapped(idx + 1)} :
          /\ m.panic = "none" /\ ~m.err
          /\ pending' = <<[r |-> m.r, from |-> idx + 1]>>
    /\ idx' = idx + 1
    /\ ppc' = "send"
    /\ UNCHANGED <<rulesFile, languagesFile, countriesFile, marcfile, gpc, rules,
                   rulesErr, languageCodes, countryCodes, closed, logged, crash, cpc,
                   received, callVars>>

\* out <- r meets the consumer's receive: the channel has no buffer, so the
\* send completes when, and only when, the consumer takes the Record
Handoff ==
    /\ Alive /\ ppc = "send" /\ cpc = "recv"
    /\ received' = Append(received, pending[1])
    /\ pending' = <<>>
    /\ ppc' = "next"
    /\ UNCHANGED <<rulesFile, languagesFile, countriesFile, marcfile, gpc, rules,
                   rulesErr, languageCodes, countryCodes, idx, closed, logged, crash,
                   cpc, callVars>>

\* parse, lines 77 and 94: mr.Next() is false; close(out)
ParseClose ==
    /\ Alive /\ ppc = "next" /\ idx = Len(marcfile)
    /\ closed' = TRUE
    /\ ppc' = "done"
    /\ UNCHANGED <<rulesFile, languagesFile, countriesFile, marcfile, gpc, rules,
                   rulesErr, languageCodes, countryCodes, idx, pending, logged, crash,
                   cpc, received, callVars>>

\* The consumer's receive on the closed, drained channel: end of stream
ConsumerEnd ==
    /\ Alive /\ cpc = "recv" /\ closed
    /\ cpc' = "eos"
    /\ UNCHANGED <<rulesFile, languagesFile, countriesFile, marcfile, gpc, rules,
                   rulesErr, languageCodes, countryCodes, ppc, idx, pending, closed,
                   logged, crash, received, callVars>>

Next ==
    \/ GenRetrieveRules
    \/ GenRetrieveLanguages
    \/ GenRetrieveCountries
    \/ GenSpawn
    \/ GenReturn
    \/ ParseDecodeError
    \/ ParsePanic
    \/ ParseMapError
    \/ ParseMapOk
    \/ Handoff
    \/ ParseClose
    \/ ConsumerEnd

Spec == Init /\ [][Next]_vars

\* The run with its goroutines scheduled: Generate's goroutine, the parse
\* goroutine and the consumer each take the step they are able to take, and
\* a send meets the receive that waits for it.
GenerateStep ==
    \/ GenRetrieveRules
    \/ GenRetrieveLanguages
    \/ GenRetrieveCountries
    \/ GenSpawn
    \/ GenReturn

\* parse, line 87: the call of marcToRecord for a record that decoded, with
\* each of its three outcomes
ParseMapStep ==
    \/ ParsePanic
    \/ ParseMapError
    \/ ParseMapOk

\* parse is at line 87 with a record that decoded.  marcToRecord panics,
\* returns an error or returns a Record, so this is the state in which
\* ParseMapStep is enabled.
ParseMapReady ==
    /\ Alive /\ ppc = "next" /\ idx < Len(marcfile)
    /\ ~marcfile[idx + 1].err

\* Weak fairness of ParseMapStep, WF_vars(ParseMapStep), written out with
\* ParseMapReady for ENABLED <<ParseMapStep>>_vars
ParseMapFair == []<>(~ParseMapReady) \/ []<><<ParseMapStep>>_vars

SpecLive ==
    /\ Init /\ [][Next]_vars
    /\ WF_vars(GenerateStep)
    /\ WF_vars(ParseDecodeError)
    /\ ParseMapFair
    /\ WF_vars(ParseClose)
    /\ WF_vars(Handoff)
    /\ WF_vars(ConsumerEnd)

(***************************************************************************)
(* Properties of the ingest run                                            *)
(***************************************************************************)

PanicKinds == {"nilrule", "nilentry", "nilfield", "bounds", "index"}

\* The Records parse has produced: those received and the one being sent
Sent == received \o pending

SentFrom == {Sent[k].from : k \in DOMAIN Sent}

\* Record i has been through the loop body, which ran to its end
Finished(i) == i <= idx /\ ~(i = idx /\ crash \in PanicKinds)

LoggedAs(i, why) == \E k \in DOMAIN logged : logged[k] = [i |-> i, why |-> why]

\* The rule at place k is the rule for the label: the first with the
\* label, and no entry before it is nil
RuleAt(k, label) ==
    /\ rules[k] # <<>> /\ rules[k][1].Label = label
    /\ \A j \in 1..(k - 1) : rules[j] # <<>> /\ rules[j][1].Label # label

\* Some field of the record has the tag the Field spec asks Filter for
Occurs(spec, fmlRecord) ==
    \E f \in DOMAIN fmlRecord.Fields :
        fmlRecord.Fields[f].Tag = QueryTag(spec.Tag \o spec.Subfields)

\* Some field of record i has the tag of a Field spec of the "title" rule
TitleMatch(i) ==
    \E k \in DOMAIN rules :
        /\ RuleAt(k, "title")
        /\ \E s \in DOMAIN rules[k][1].Fields :
               /\ rules[k][1].Fields[s] # <<>>
               /\ Occurs(rules[k][1].Fields[s][1], marcfile[i].record)

\* Record i decodes and marcToRecord returns a Record for it
Good(i) == ~marcfile[i].err /\ Mapped(i).panic = "none" /\ ~Mapped(i).err

RECURSIVE GoodUpTo(_)
GoodUpTo(n) ==
    IF n = 0 THEN <<>>
    ELSE GoodUpTo(n - 1) \o (IF Good(n) THEN <<n>> ELSE <<>>)

\* C1 (title gate): every Record sent on the channel or received from it
\* was built from a record with a title-rule match and carries a title; and
\* for every record without one that marcToRecord has returned from, what
\* it returned was an error: the record was logged and skipped.
C1_TitleGate ==
    /\ \A k \in DOMAIN Sent :
          /\ TitleMatch(Sent[k].from)
          /\ "Title" \in DOMAIN Sent[k].r
    /\ \A i \in 1..idx :
          (Finished(i) /\ ~marcfile[i].err /\ ~TitleMatch(i)) =>
              (LoggedAs(i, "map") /\ i \notin SentFrom)

\* A record without a title was rejected and another one was received
C1_Witness ==
    /\ \E i \in 1..idx : ~marcfile[i].err /\ ~TitleMatch(i) /\ LoggedAs(i, "map")
    /\ received # <<>>

\* C2 (no loss, no duplication): at every moment the Records produced are,
\* in input order and each once, those of the records gone through so far
\* that decoded and mapped without error, each the Record marcToRecord
\* built; the channel is closed only after the last record and with no send
\* outstanding; and at end of stream the consumer holds all of them.
C2_NoLossNoDuplication ==
    /\ [k \in DOMAIN Sent |-> Sent[k].from]
           = GoodUpTo(IF crash \in PanicKinds THEN idx - 1 ELSE idx)
    /\ \A k \in DOMAIN Sent : Sent[k].r = Mapped(Sent[k].from).r
    /\ closed => (idx = Len(marcfile) /\ pending = <<>>)
    /\ cpc = "eos" =>
          (closed /\ [k \in DOMAIN received |-> received[k].from] = GoodUpTo(Len(marcfile)))

\* The consumer saw the end of a stream of which it received two Records and
\* of which a record was skipped
C2_Witness ==
    /\ cpc = "eos"
    /\ Len(received) = 2
    /\ logged # <<>>

\* C3 (out-of-range byte extraction is a per-record error): a record whose
\* byte range does not lie within the extracted value is logged and skipped
\* and the run goes on.
C3_OutOfRangeIsPerRecordError ==
    \A i \in 1..idx :
        (~marcfile[i].err /\ Mapped(i).panic \in {"bounds", "index"}) =>
            (crash = "none" /\ LoggedAs(i, "map"))

\* C4 (decode errors are skipped, never escalated): a record the iterator
\* reports an error for is logged and nothing is sent for it; no decode
\* error ends the run or closes the channel, which is closed only when the
\* iterator is exhausted; and at end of stream every record after a decode
\* error that decodes and maps has been received.
C4_DecodeErrorsSkipped ==
    /\ \A i \in 1..idx :
          marcfile[i].err => (LoggedAs(i, "decode") /\ i \notin SentFrom)
    /\ crash \in PanicKinds => ~marcfile[idx].err
    /\ (closed \/ ppc = "done") => idx = Len(marcfile)
    /\ cpc = "eos" =>
          \A i, j \in 1..Len(marcfile) :
              (i < j /\ marcfile[i].err /\ Good(j)) =>
                  \E k \in DOMAIN received : received[k].from = j

\* End of stream, a Record received that followed two decode errors
C4_Witness ==
    /\ cpc = "eos"
    /\ \E j \in 3..Len(marcfile) :
          /\ marcfile[j - 2].err /\ marcfile[j - 1].err
          /\ \E k \in DOMAIN received : received[k].from = j

\* The rules were loaded and lack a rule for a label marcToRecord looks up
MissingLabel ==
    /\ gpc # "rules" /\ ~rulesErr
    /\ \E label \in LabelSet : getRules(rules, label) = Ok(<<>>)

\* C5 (a label with no rule fails the run at startup): with such a ruleset
\* no record is decoded or mapped, and no nil rule is dereferenced while
\* mapping a record.
C5_MissingRuleFailsAtStartup ==
    /\ MissingLabel => (ppc = "idle" /\ idx = 0)
    /\ crash # "nilrule"

\* A code table file the decoder gives up on before its end
Truncated(file) == file.exists /\ file.good < Len(file.elems)

\* The configuration that has been read so far failed to load
ConfigError ==
    \/ gpc # "rules" /\ rulesErr
    \/ gpc \notin {"rules", "languages"} /\ (~languagesFile.exists \/ Truncated(languagesFile))
    \/ gpc \notin {"rules", "languages", "countries"}
           /\ (~countriesFile.exists \/ Truncated(countriesFile))

\* C6 (configuration errors abort before processing begins): when the
\* ruleset or a code table failed to load, the producer is not started and
\* no record is decoded, mapped or emitted.
C6_ConfigErrorAbortsBeforeProcessing ==
    ConfigError => (ppc = "idle" /\ idx = 0 /\ Sent = <<>>)

(***************************************************************************)
(* The mapping functions applied alone                                     *)
(*                                                                         *)
(* call holds the function applied and its arguments, ret its outcome.     *)
(***************************************************************************)

\* The fields the records are made of
MapFields ==
    {DataF("245", "1", "0", <<Sub("a", "T")>>),
     DataF("650", " ", "0", <<Sub("a", "x")>>),
     DataF("650", " ", "0", <<Sub("a", "y"), Sub("b", "x")>>),
     DataF("651", " ", "0", <<Sub("a", "x")>>),
     DataF("010", " ", " ", <<Sub("a", "\t85000123\n")>>),
     ControlF("008", Full008),
     ControlF("008", Short008),
     ControlF("008", Accent008)}

MapRecords == {Rec("m", "a", fields) : fields \in SeqsUpTo(MapFields, MaxFields)}

\* The Field specs the rules are made of: plain ones, a byte range within
\* the 008 field, one beyond its end, one with a length no int holds, one
\* with no length, a nil one (null in the rules file), and three whose
\* "tag" has not three bytes
MapSpecs ==
    {FieldSpec("650", "a", "", ""),
     FieldSpec("65", "0a", "", ""),
     FieldSpec("", "651a", "", ""),
     FieldSpec("0080", "", "7:4", ""),
     FieldSpec("650", "b", "", ""),
     FieldSpec("651", "a", "", ""),
     FieldSpec("008", "", "7:4", ""),
     FieldSpec("008", "", "38:4", ""),
     FieldSpec("008", "", "7:9223372036854775808", ""),
     FieldSpec("008", "", "99999999999999999999x:0", ""),
     FieldSpec("008", "", "7", ""),
     <<>>}

MapRules ==
    {<< <<[Label |-> "subjects", Array |-> TRUE, Fields |-> fields]>> >> :
        fields \in SeqsUpTo(MapSpecs, MaxSpecs)}

\* Rules files for marcToRecord: every label, and every label with the
\* subjects taken from the 652 field, which no record has, and every label
\* with the first contributors taken by a "tag" of two bytes
RuleSets ==
    {FullRules, WithFields(FullRules, "subjects", <<FieldSpec("652", "a", "7", "")>>),
     WithFields(FullRules, "contributors", <<FieldSpec("70", "0a", "", "author")>>)}

Codes == {"eng", "fre", "und"}

Names == {"English", ""}

\* The code tables: every map from some of the codes to the names
CodeMaps == UNION {[K -> Names] : K \in SUBSET Codes}

InitMap ==
    /\ IngestIdle
    /\ call = NoCall /\ ret = <<>>

CallApplyRule ==
    /\ call = NoCall
    /\ \E fmlRecord \in MapRecords, rs \in MapRules :
          /\ call' = [fn |-> "applyRule", fmlRecord |-> fmlRecord, rules |-> rs,
                      field |-> "subjects"]
          /\ ret' = applyRule(fmlRecord, rs, "subjects")
    /\ UNCHANGED ingestVars

CallMarcToRecord ==
    /\ call = NoCall
    /\ \E fmlRecord \in MapRecords, rs \in RuleSets :
          /\ call' = [fn |-> "marcToRecord", fmlRecord |-> fmlRecord, rules |-> rs]
          /\ ret' = marcToRecord(fmlRecord, rs, <<>>, <<>>)
    /\ UNCHANGED ingestVars

CallTranslateCodes ==
    /\ call = NoCall
    /\ \E recordCodes \in SeqsUpTo(Codes, MaxCodes), codeMap \in CodeMaps :
          /\ call' = [fn |-> "TranslateCodes", recordCodes |-> recordCodes,
                      codeMap |-> codeMap]
          /\ ret' = TranslateCodes(recordCodes, codeMap)
    /\ UNCHANGED ingestVars

NextMap ==
    \/ CallApplyRule
    \/ CallMarcToRecord
    \/ CallTranslateCodes

SpecMap == InitMap /\ [][NextMap]_vars

(***************************************************************************)
(* Properties of the mapping functions                                     *)
(***************************************************************************)

RECURSIVE Flatten(_)
Flatten(ss) == IF ss = <<>> THEN <<>> ELSE Head(ss) \o Flatten(Tail(ss))

\* What the Field specs of a rule yield from a record, spec after spec and
\* occurrence after occurrence
Yields(rule, fmlRecord) ==
    Flatten([k \in DOMAIN rule.Fields |-> filter(fmlRecord, rule.Fields[k]).val])

FirstAt(s, x) == CHOOSE i \in DOMAIN s : s[i] = x /\ \A j \in 1..(i - 1) : s[j] # x

\* C8 (applyRule de-duplicates and keeps the order of first appearance):
\* what applyRule returns holds no string twice, holds exactly the strings
\* the Field specs yield, and holds them in the order in which each first
\* appears among the yields.
C8_DistinctInFirstSeenOrder ==
    (call.fn = "applyRule" /\ ret.panic = "none") =>
        LET ys == Yields(call.rules[1][1], call.fmlRecord)
        IN  /\ \A a, b \in DOMAIN ret.val : ret.val[a] = ret.val[b] => a = b
            /\ {ret.val[a] : a \in DOMAIN ret.val} = {ys[j] : j \in DOMAIN ys}
            /\ \A a, b \in DOMAIN ret.val :
                   a < b => FirstAt(ys, ret.val[a]) < FirstAt(ys, ret.val[b])

\* Two specs yield x, y, x and applyRule returns x, y
C8_Witness ==
    /\ call.fn = "applyRule" /\ ret.panic = "none"
    /\ Len(call.rules[1][1].Fields) = 2
    /\ Yields(call.rules[1][1], call.fmlRecord) = <<"x", "y", "x">>
    /\ ret.val = <<"x", "y">>

\* The Field specs of the rule match zero occurrences in the record: no
\* field of the record has the tag of any of them
ZeroOccurrences(rule, fmlRecord) ==
    \A k \in DOMAIN rule.Fields :
        rule.Fields[k] # <<>> /\ ~Occurs(rule.Fields[k][1], fmlRecord)

\* The field of the Record each label's values go to, for the labels whose
\* values marcToRecord takes from applyRule
RecordField ==
    [oclc_number |-> "OclcNumber", lccn |-> "Lccn",
     alternate_titles |-> "AlternateTitles", creators |-> "Creator",
     contributors |-> "Contributor", related_place |-> "RelatedPlace",
     related_items |-> "RelatedItems", in_bibliography |-> "InBibliography",
     subjects |-> "Subject", isbns |-> "Isbn", issns |-> "Issn", dois |-> "Doi",
     place_of_publication |-> "Country", languages |-> "Language",
     call_numbers |-> "CallNumber", edition |-> "Edition", imprint |-> "Imprint",
     physical_description |-> "PhysicalDescription",
     publication_frequency |-> "PublicationFrequency",
     publication_date |-> "PublicationDate", numbering |-> "Numbering",
     notes |-> "Notes", contents |-> "Contents", summary |-> "Summary",
     literary_form |-> "LiteraryForm"]

Absent(x) == x = "" \/ x = <<>>

\* Nothing but absence can keep record i from being mapped: every label
\* has its rule, no Field spec is nil, the title rule has an occurrence,
\* and no spec that has an occurrence cuts a byte range
OnlyAbsence(i) ==
    /\ TitleMatch(i)
    /\ \A label \in LabelSet :
          \E k \in DOMAIN rules :
              /\ RuleAt(k, label)
              /\ \A n \in DOMAIN rules[k][1].Fields :
                     /\ rules[k][1].Fields[n] # <<>>
                     /\ \/ rules[k][1].Fields[n][1].Bytes = ""
                        \/ ~Occurs(rules[k][1].Fields[n][1], marcfile[i].record)

\* C9 (a rule with no occurrence in the record yields nothing, and the
\* field is absent): for every record of the stream that decodes and every
\* rule of the loaded rules whose Field specs match zero occurrences in it,
\* applyRule returns the empty result and does not panic, whatever the byte
\* ranges of the rule; when the rule is the title rule no Record is sent
\* for the record, and when it is another rule the Record sent for the
\* record has the field absent; and a record that nothing but absence
\* could keep from being mapped is, once parse has gone through it, sent.
C9_ZeroOccurrencesIsAbsent ==
    \A i \in DOMAIN marcfile :
        ~marcfile[i].err =>
            /\ \A k \in DOMAIN rules, label \in LabelSet :
                   (RuleAt(k, label) /\ ZeroOccurrences(rules[k][1], marcfile[i].record)) =>
                       /\ applyRule(marcfile[i].record, rules, label) = Ok(<<>>)
                       /\ label = "title" => i \notin SentFrom
                       /\ \A n \in DOMAIN Sent :
                              (Sent[n].from = i /\ label # "title") =>
                                  Absent(Sent[n].r[RecordField[label]])
            /\ (i <= idx /\ OnlyAbsence(i)) => i \in SentFrom

\* The record with a title and nothing else was received under the rules
\* whose publication date has a byte range with no length: applyRule found
\* no occurrence for that rule, the Record has a title and no publication
\* date
C9_Witness ==
    \E n \in DOMAIN received, k \in DOMAIN rules :
        /\ RuleAt(k, "publication_date")
        /\ rules[k][1].Fields = <<FieldSpec("008", "", "7", "")>>
        /\ ZeroOccurrences(rules[k][1], marcfile[received[n].from].record)
        /\ OnlyAbsence(received[n].from)
        /\ received[n].r.Title = "Ubik"
        /\ received[n].r.PublicationDate = ""

\* C10 as stated (TranslateCodes is total and keeps positions): as many
\* outputs as codes, each the table's label for the code when the table has
\* one and the code itself otherwise.
C10_LabelWheneverTableHasOne ==
    call.fn = "TranslateCodes" =>
        /\ Len(ret) = Len(call.recordCodes)
        /\ \A i \in DOMAIN call.recordCodes :
               ret[i] = IF call.recordCodes[i] \in DOMAIN call.codeMap
                        THEN call.codeMap[call.recordCodes[i]]
                        ELSE call.recordCodes[i]

\* C10 amended: as many outputs as codes, each the table's label for the
\* code when the table has one that is not the empty string and the code
\* itself otherwise.
C10_NonEmptyLabelOrCode ==
    call.fn = "TranslateCodes" =>
        /\ Len(ret) = Len(call.recordCodes)
        /\ \A i \in DOMAIN call.recordCodes :
               ret[i] = IF call.recordCodes[i] \in DOMAIN call.codeMap
                           /\ call.codeMap[call.recordCodes[i]] # ""
                        THEN call.codeMap[call.recordCodes[i]]
                        ELSE call.recordCodes[i]

\* A translated code, a code the table lacks and a code whose label is
\* empty, in one list
C10_Witness ==
    /\ call.fn = "TranslateCodes"
    /\ call.recordCodes = <<"eng", "fre", "und">>
    /\ call.codeMap = [c \in {"eng", "und"} |-> IF c = "eng" THEN "English" ELSE ""]
    /\ ret = <<"English", "fre", "und">>

(***************************************************************************)
(* The derived fields applied alone: holdings, links, content type and the *)
(* lookup tables                                                           *)
(***************************************************************************)

\* The bytes 32 to 95 and 97 to 126 in order, each the one-byte string it
\* is in a leader
AsciiLow == " !\"#$%&'()*+,-./0123456789:;<=>?@ABCDEFGHIJKLMNOPQRSTUVWXYZ[\\]^_"

AsciiHigh == "abcdefghijklmnopqrstuvwxyz{|}~"

\* The byte b as the value contentType is given: the character itself, and
\* for a byte with no character to write it by, a name no character has
Chr(b) ==
    IF b \in 32..95 THEN SubSeq(AsciiLow, b - 31, b - 31)
    ELSE IF b \in 97..126 THEN SubSeq(AsciiHigh, b - 96, b - 96)
    ELSE "#" \o DecStr(b)

TitleField == DataF("245", "1", "0", <<Sub("a", "T")>>)

\* Holdings fields of both tag families, told apart by their call numbers
HoldFields ==
    {DataF("866", " ", " ", <<Sub("b", "HUM"), Sub("c", "STACK"), Sub("h", "P1"),
                              Sub("a", "v.1-3")>>),
     DataF("866", " ", " ", <<Sub("h", "P2")>>),
     DataF("852", " ", " ", <<Sub("b", "ENG"), Sub("c", "JRNAL"), Sub("h", "F1"),
                              Sub("k", "CD")>>),
     DataF("852", " ", " ", <<Sub("b", "NET"), Sub("h", "F2")>>)}

HoldRecords ==
    {Rec("h", "a", <<TitleField>> \o fields) : fields \in SeqsUpTo(HoldFields, MaxFields)}

\* 856 fields with every kind of indicators, with and without a subfield 3,
\* with two subfields u, and a field that is no 856 field
LinkFields ==
    {DataF("856", "4", "0", <<Sub("u", "http://x")>>),
     DataF("856", "4", "1", <<Sub("3", "Full text"), Sub("u", "http://y"),
                              Sub("u", "http://z"), Sub("y", "Read")>>),
     DataF("856", "4", "2", <<Sub("u", "http://n")>>),
     DataF("856", " ", "0", <<Sub("3", "Index"), Sub("u", "http://m")>>),
     DataF("856", "4", "0", <<Sub("3", ""), Sub("3", "Later"), Sub("u", "http://e")>>),
     TitleField}

LinkRecords == {Rec("l", "a", fields) : fields \in SeqsUpTo(LinkFields, MaxFields)}

\* Codes the lookups are given: some of each table, some of none, and none
LookupCodes == {"HUM", "NET", "STACK", "JRNAL", "CD", "BOOKS", "XYZ", "ZINE", ""}

CallRecordHoldings ==
    /\ call = NoCall
    /\ \E fmlRecord \in HoldRecords :
          /\ call' = [fn |-> "holdings", fmlRecord |-> fmlRecord]
          /\ ret' = marcToRecord(fmlRecord, FullRules, <<>>, <<>>)
    /\ UNCHANGED ingestVars

CallGetLinks ==
    /\ call = NoCall
    /\ \E fmlRecord \in LinkRecords :
          /\ call' = [fn |-> "getLinks", fmlRecord |-> fmlRecord]
          /\ ret' = getLinks(fmlRecord)
    /\ UNCHANGED ingestVars

CallContentType ==
    /\ call = NoCall
    /\ \E x \in 0..255 :
          /\ call' = [fn |-> "contentType", x |-> x]
          /\ ret' = [main |-> contentType(Chr(x)), parsers |-> parsers_contentType(Chr(x))]
    /\ UNCHANGED ingestVars

\* getHoldings of a record with one 852 field of the codes b, c and k
CallGetHoldings ==
    /\ call = NoCall
    /\ \E b \in LookupCodes, c \in LookupCodes, k \in LookupCodes :
          /\ call' = [fn |-> "getHoldings", b |-> b, c |-> c, k |-> k]
          /\ ret' = getHoldings(
                        Rec("k", "a", <<DataF("852", " ", " ",
                                              <<Sub("b", b), Sub("c", c), Sub("k", k)>>)>>),
                        "852", <<"b", "c", "h", "a", "z", "k">>)
    /\ UNCHANGED ingestVars

NextDerived ==
    \/ CallRecordHoldings
    \/ CallGetLinks
    \/ CallContentType
    \/ CallGetHoldings

SpecDerived == InitMap /\ [][NextDerived]_vars

(***************************************************************************)
(* Properties of the derived fields                                        *)
(***************************************************************************)

\* The fields of the record with the tag, in record order
FieldsTagged(fmlRecord, tag) ==
    SelectSeq(fmlRecord.Fields, LAMBDA f : f.Tag = tag)

\* The value of the first subfield of f with the code, "" when it has none
FirstSub(f, code) ==
    IF \E j \in DOMAIN f.SubFields : f.SubFields[j].Code = code
    THEN f.SubFields[CHOOSE j \in DOMAIN f.SubFields :
                        /\ f.SubFields[j].Code = code
                        /\ \A k \in 1..(j - 1) : f.SubFields[k].Code # code].Value
    ELSE ""

\* C11 (holdings fallback): the Record marcToRecord returns has one Holding
\* for each 866 field and none of an 852 field when the record has an 866
\* field, and one Holding for each 852 field when it has none; the Holdings
\* are in the order of their fields and never of both families.
C11_HoldingsFallback ==
    (call.fn = "holdings" /\ ret.panic = "none" /\ ~ret.err) =>
        LET primary == FieldsTagged(call.fmlRecord, "866")
            fallback == FieldsTagged(call.fmlRecord, "852")
            family == IF primary # <<>> THEN primary ELSE fallback
        IN  /\ Len(ret.r.Holdings) = Len(family)
            /\ \A i \in DOMAIN family :
                   /\ ret.r.Holdings[i].CallNumber = FirstSub(family[i], "h")
                   /\ ret.r.Holdings[i].Summary = FirstSub(family[i], "a")
            /\ primary # <<>> =>
                   \A i \in DOMAIN ret.r.Holdings :
                       ret.r.Holdings[i].Format = "Print volume"

\* A record with 866 fields around an 852 field: the two 866 Holdings alone
C11_Witness ==
    /\ call.fn = "holdings" /\ ret.panic = "none" /\ ~ret.err
    /\ Len(FieldsTagged(call.fmlRecord, "852")) = 1
    /\ Len(FieldsTagged(call.fmlRecord, "866")) = 2
    /\ call.fmlRecord.Fields[3].Tag = "852"
    /\ [i \in DOMAIN ret.r.Holdings |-> ret.r.Holdings[i].CallNumber] = <<"P1", "P2">>

\* A record with 852 fields alone: the fallback Holdings
C11_WitnessFallback ==
    /\ call.fn = "holdings" /\ ret.panic = "none" /\ ~ret.err
    /\ FieldsTagged(call.fmlRecord, "866") = <<>>
    /\ [i \in DOMAIN ret.r.Holdings |-> ret.r.Holdings[i].CallNumber] = <<"F2", "F1">>

\* The 856 fields of the record whose indicators make them links
LinkFieldsOf(fmlRecord) ==
    SelectSeq(fmlRecord.Fields,
              LAMBDA f : /\ f.Tag = "856"
                         /\ f.Indicator1 = "4"
                         /\ f.Indicator2 \in {"0", "1"})

\* C12 (link extraction): getLinks returns one Link for each 856 field with
\* first indicator 4 and second indicator 0 or 1, in record order, and none
\* for another field; the URL of each is the first subfield u of its field
\* and the Kind the first subfield 3, or "unknown" when that is empty or
\* missing.
C12_OneLinkPerLinkField ==
    call.fn = "getLinks" =>
        LET fs == LinkFieldsOf(call.fmlRecord)
        IN  /\ Len(ret) = Len(fs)
            /\ \A i \in DOMAIN fs :
                   /\ ret[i].URL = FirstSub(fs[i], "u")
                   /\ ret[i].Kind = IF FirstSub(fs[i], "3") # ""
                                    THEN FirstSub(fs[i], "3") ELSE "unknown"

\* A field with second indicator 2 between a link with a subfield 3 and two
\* subfields u, and a link whose first subfield 3 is empty
C12_Witness ==
    /\ call.fn = "getLinks"
    /\ Len(call.fmlRecord.Fields) = 3
    /\ call.fmlRecord.Fields[2].Indicator2 = "2"
    /\ [i \in DOMAIN ret |-> <<ret[i].URL, ret[i].Kind>>]
           = << <<"http://y", "Full text">>, <<"http://e", "unknown">> >>

\* The labels of the switch of contentType, by leader byte
ContentLabels ==
    [c |-> "Musical score", d |-> "Musical score",
     e |-> "Cartographic material", f |-> "Cartographic material",
     g |-> "Moving image", i |-> "Sound recording", j |-> "Sound recording",
     k |-> "Still image", m |-> "Computer file", o |-> "Kit",
     p |-> "Mixed materials", r |-> "Object"]

\* C13 (contentType is total): for each of the 256 values of the leader
\* byte, contentType of either package returns the label of the byte when it
\* is one of c, d, e, f, g, i, j, k, m, o, p, r and "Text" otherwise, and
\* never the empty label.
C13_ContentTypeTotal ==
    call.fn = "contentType" =>
        LET expected == IF Chr(call.x) \in DOMAIN ContentLabels
                        THEN ContentLabels[Chr(call.x)] ELSE "Text"
        IN  /\ ret.main = expected
            /\ ret.parsers = expected
            /\ ret.main # ""

\* The byte 255, which the switch does not hold
C13_Witness ==
    /\ call.fn = "contentType"
    /\ call.x = 255
    /\ ret.main = "Text" /\ ret.parsers = "Text"

\* The byte of the letter r, the last the switch holds
C13_WitnessLabelled ==
    /\ call.fn = "contentType"
    /\ call.x = 114
    /\ ret.main = "Object"

(***************************************************************************)
(* Properties of the hand-off between parse and the consumer               *)
(***************************************************************************)

\* C14 (parse closes the channel on exhaustion): with the consumer
\* receiving, parse, once started, eventually closes the channel; it closes
\* it only when the iterator is exhausted and no Record is being sent, and
\* after the close it neither sends nor closes again.
C14_ClosesOnExhaustion ==
    /\ (ppc # "idle") ~> closed
    /\ [](closed => (idx = Len(marcfile) /\ pending = <<>> /\ ppc = "done"))
    /\ [][closed => (closed' /\ pending' = <<>> /\ ppc' = "done")]_vars

\* The codes the switches of lookupLocation, lookupCollection and
\* lookupFormat hold
LocationCodes ==
    {"HUM", "RBR", "SCI", "MIT50", "ARC", "ACQ", "ENG", "CAT", "DEW", "DIR",
     "DOC", "ILB", "LSA", "NET", "MUS", "PHY", "RTC", "RVC", "SPC", "OFFIC"}

CollectionCodes ==
    {"STACK", "ATLCS", "AUDBK", "JRNAL", "BRWS", "CNSUS", "CIRCD", "DETEC", "EJ",
     "GIS", "GOV", "GRNVL", "HDCBX", "ICPSR", "IMPLS", "LSA4", "OVRSZ", "LMTED",
     "MAPRM", "MFORM", "MEDIA", "NCIP", "NEWBK", "NOLN1", "NOLN2", "NOLN3", "OCC",
     "OCCBX", "OFFCT", "PAMPH", "PRECT", "REF", "RSERV", "SWING", "TRAVL", "UNCAT",
     "UNKNW", "WSTM"}

FormatCodes ==
    {"BOOKS", "REGULAR", "ATLAS", "AUDIO", "AUDTAPE", "CD", "CDROM", "DSKETTE",
     "DVD", "FICHE", "FOLIO", "OVRSIZE", "MAP", "MFILM", "RECORD", "SCORE",
     "SMALL", "VDISC", "VHS"}

\* C15 as stated (the lookups are fail-open): a location, collection or
\* format code that its table does not hold is the Location, Collection or
\* Format of the Holding unchanged.
C15_AbsentCodesPassThrough ==
    call.fn = "getHoldings" =>
        /\ Len(ret) = 1
        /\ call.b \notin LocationCodes => ret[1].Location = call.b
        /\ call.c \notin CollectionCodes => ret[1].Collection = call.c
        /\ call.k \notin FormatCodes => ret[1].Format = call.k

\* C15 amended: a location or collection code that its table does not hold
\* is the Location or Collection of the Holding unchanged; a format code
\* that the table does not hold gives the Format "Print volume", and the
\* empty Format when the Location is "Internet Resource".
C15_FormatDefaultsToPrintVolume ==
    call.fn = "getHoldings" =>
        /\ Len(ret) = 1
        /\ call.b \notin LocationCodes => ret[1].Location = call.b
        /\ call.c \notin CollectionCodes => ret[1].Collection = call.c
        /\ call.k \notin FormatCodes =>
               ret[1].Format = IF ret[1].Location = "Internet Resource" THEN ""
                               ELSE "Print volume"

\* A Holding of three codes no table holds
C15_Witness ==
    /\ call.fn = "getHoldings"
    /\ call.b = "XYZ" /\ call.c = "ZINE" /\ call.k = "ZINE"
    /\ ret[1].Location = "XYZ" /\ ret[1].Collection = "ZINE"
    /\ ret[1].Format = "Print volume"

\* C16 as stated (the Documents in flight are bounded by the capacity): the
\* number of Records parse has produced and the consumer has not received
\* never exceeds the capacity of the channel Generate makes.
C16_InFlightWithinCapacity == Len(pending) <= ChanCap

\* C16 amended (backpressure): the Records produced and not received never
\* exceed the capacity of the channel by more than the one parse is blocked
\* sending; parse takes the next record only when that one has been taken;
\* the consumer receives only a Record that is being sent, that Record and
\* as the send completes, and sees the end of the stream only when the
\* channel is closed and empty.
C16_Backpressure ==
    /\ [](Len(pending) <= ChanCap + 1)
    /\ [](pending # <<>> <=> ppc = "send")
    /\ [][idx' # idx => (pending = <<>> /\ ppc = "next")]_vars
    /\ [][received' # received =>
              (pending # <<>> /\ received' = Append(received, pending[1])
                 /\ pending' = Tail(pending))]_vars
    /\ [][received' # received => (ppc = "send" /\ ppc' = "next")]_vars
    /\ [][(cpc = "recv" /\ cpc' = "eos") => (closed /\ pending = <<>>)]_vars

\* parse is blocked sending the Record of the second record, the consumer
\* has the first, and a third record waits to be decoded
C16_Witness ==
    /\ ppc = "send" /\ Len(pending) = 1 /\ pending[1].from = 2
    /\ Len(received) = 1
    /\ idx < Len(marcfile)
    /\ cpc = "recv"

====
